---- MODULE Spec2Model ----
(***************************************************************************)
(* Crowdfunding campaign contract (crowdfund/src/main.rs).                 *)
(*                                                                         *)
(* One Campaign value is created by create_campaign and then handed, by    *)
(* reference, to contribute / withdraw / refund / check_status /           *)
(* finalize_campaign.  Each handler is a pure operator from the campaign,  *)
(* the host timestamp and the invoker to an Outcome (the campaign after    *)
(* the call, the panic message or "ok", the transfer requested from the    *)
(* host and the event emitted); one action per handler applies it.         *)
(* A failed assert! panics before any assignment of the handler, so the    *)
(* campaign of a panicking call is the campaign it was given.              *)
(* The host transfer primitive is external; as in test_withdraw_funds it   *)
(* is taken to credit the recipient with the amount it is asked to move.   *)
(***************************************************************************)
EXTENDS Integers, FiniteSets, Sequences, TLC

\* ---------------------------------------------------------------- bounds
MaxAddr == 2          \* identities 1..MaxAddr
MaxGoal == 2          \* goals 1..MaxGoal
MaxDeadline == 1      \* deadlines 1..MaxDeadline
MaxAmount == 2        \* contribute amounts -1..MaxAmount
MaxAccepted == 2      \* cap on the sum of accepted contributions
MaxWithdraws == 2     \* cap on the number of successful withdraw calls

Address == 1..MaxAddr
\* arguments of create_campaign: a positive goal and a deadline later than
\* the timestamp 0 at which the campaign is created
Goals == 1..MaxGoal
Deadlines == 1..MaxDeadline
Amounts == (-1)..MaxAmount

\* the host clock runs from 0 to one tick past the latest deadline
MaxTime == MaxDeadline + 1

\* ------------------------------------------------------- CampaignStatus
Active == "Active"
Successful == "Successful"
Failed == "Failed"
Expired == "Expired"
CampaignStatus == {Active, Successful, Failed, Expired}

\* Option<Token>
Tokens == {"None", "Some"}

\* ------------------------------------------------ panic messages / "ok"
Ok == "ok"
CampaignEnded == "Campaign has ended"
InvalidAmount == "Contribution must be positive"
Unauthorized == "Only the creator can withdraw"
GoalNotMet == "Campaign goal was not met"
NotFailed == "Campaign was successful, no refund available"
NoContribution == "No contribution found"

\* ----------------------------------------------------- Map<Address, BigInt>
MapNew == [a \in {} |-> 0]

\* Map::get(..).unwrap_or(BigInt::zero())
MapGetOrZero(m, k) == IF k \in DOMAIN m THEN m[k] ELSE 0

\* Map::insert
MapInsert(m, k, v) == [a \in (DOMAIN m) \cup {k} |-> IF a = k THEN v ELSE m[a]]

RECURSIVE SumOver(_, _)
SumOver(f, S) ==
    IF S = {} THEN 0
    ELSE LET a == CHOOSE x \in S : TRUE IN f[a] + SumOver(f, S \ {a})

\* sum(contributions.values())
LedgerSum(m) == SumOver(m, DOMAIN m)

\* --------------------------------------------------- transfers and events
NoTransfer == [to |-> 0, amount |-> 0, via |-> "none"]
NoEvent == [name |-> "none", who |-> 0, amount |-> 0]

\* token.transfer_from_contract / env.transfer_from_contract
Transfer(c, to, amount) ==
    [to |-> to, amount |-> amount,
     via |-> IF c.token # "None" THEN "token" ELSE "native"]

Event(name, who, amount) == [name |-> name, who |-> who, amount |-> amount]

Outcome(c, result, transfer, event) ==
    [campaign |-> c, result |-> result, transfer |-> transfer, event |-> event]

Panic(c, msg) == Outcome(c, msg, NoTransfer, NoEvent)

\* ------------------------------------------------------------- handlers
create_campaign(invoker, goal, deadline, token) ==
    [creator |-> invoker,
     goal |-> goal,
     deadline |-> deadline,
     contributions |-> MapNew,
     total_contributed |-> 0,
     status |-> Active,
     token |-> token]

\* contribute that stores the amount instead of adding it to the entry
contribute_overwrites(c, ts, invoker, amount) ==
    IF ~(ts < c.deadline) THEN Panic(c, CampaignEnded)
    ELSE IF ~(amount > 0) THEN Panic(c, InvalidAmount)
    ELSE LET total == c.total_contributed + amount
             c1 == [c EXCEPT !.contributions = MapInsert(@, invoker, amount),
                             !.total_contributed = total]
             c2 == IF total >= c.goal THEN [c1 EXCEPT !.status = Successful] ELSE c1
         IN Outcome(c2, Ok, NoTransfer, Event("ContributionReceived", invoker, amount))

\* contribute that closes on the status instead of on the timestamp
contribute_by_status(c, ts, invoker, amount) ==
    IF ~(c.status = Active) THEN Panic(c, CampaignEnded)
    ELSE IF ~(amount > 0) THEN Panic(c, InvalidAmount)
    ELSE LET existing == MapGetOrZero(c.contributions, invoker)
             total == c.total_contributed + amount
             c1 == [c EXCEPT !.contributions = MapInsert(@, invoker, existing + amount),
                             !.total_contributed = total]
             c2 == IF total >= c.goal THEN [c1 EXCEPT !.status = Successful] ELSE c1
         IN Outcome(c2, Ok, NoTransfer, Event("ContributionReceived", invoker, amount))

\* contribute that lets an amount of zero through
contribute_accepts_zero(c, ts, invoker, amount) ==
    IF ~(ts < c.deadline) THEN Panic(c, CampaignEnded)
    ELSE IF ~(amount >= 0) THEN Panic(c, InvalidAmount)
    ELSE LET existing == MapGetOrZero(c.contributions, invoker)
             total == c.total_contributed + amount
             c1 == [c EXCEPT !.contributions = MapInsert(@, invoker, existing + amount),
                             !.total_contributed = total]
             c2 == IF total >= c.goal THEN [c1 EXCEPT !.status = Successful] ELSE c1
         IN Outcome(c2, Ok, NoTransfer, Event("ContributionReceived", invoker, amount))

\* contribute that is still open at the deadline itself
contribute_through_deadline(c, ts, invoker, amount) ==
    IF ~(ts <= c.deadline) THEN Panic(c, CampaignEnded)
    ELSE IF ~(amount > 0) THEN Panic(c, InvalidAmount)
    ELSE LET existing == MapGetOrZero(c.contributions, invoker)
             total == c.total_contributed + amount
             c1 == [c EXCEPT !.contributions = MapInsert(@, invoker, existing + amount),
                             !.total_contributed = total]
             c2 == IF total >= c.goal THEN [c1 EXCEPT !.status = Successful] ELSE c1
         IN Outcome(c2, Ok, NoTransfer, Event("ContributionReceived", invoker, amount))

contribute(c, ts, invoker, amount) ==
    IF ~(ts < c.deadline) THEN Panic(c, CampaignEnded)
    ELSE IF ~(amount > 0) THEN Panic(c, InvalidAmount)
    ELSE LET existing == MapGetOrZero(c.contributions, invoker)
             total == c.total_contributed + amount
             c1 == [c EXCEPT !.contributions = MapInsert(@, invoker, existing + amount),
                             !.total_contributed = total]
             c2 == IF total >= c.goal THEN [c1 EXCEPT !.status = Successful] ELSE c1
         IN Outcome(c2, Ok, NoTransfer, Event("ContributionReceived", invoker, amount))

\* withdraw without the creator check
withdraw_anyone(c, ts, invoker) ==
    IF ~(c.status = Successful) THEN Panic(c, GoalNotMet)
    ELSE LET amount_to_withdraw == c.total_contributed
             c1 == [c EXCEPT !.total_contributed = 0]
         IN Outcome(c1, Ok, Transfer(c, invoker, amount_to_withdraw),
                    Event("FundsWithdrawn", invoker, amount_to_withdraw))

withdraw(c, ts, invoker) ==
    IF ~(invoker = c.creator) THEN Panic(c, Unauthorized)
    ELSE IF ~(c.status = Successful) THEN Panic(c, GoalNotMet)
    ELSE LET amount_to_withdraw == c.total_contributed
             c1 == [c EXCEPT !.total_contributed = 0]
         IN Outcome(c1, Ok, Transfer(c, invoker, amount_to_withdraw),
                    Event("FundsWithdrawn", invoker, amount_to_withdraw))

\* refund that leaves the contributor's ledger entry in place
refund_keeps_entry(c, ts, invoker) ==
    IF ~(c.status = Failed) THEN Panic(c, NotFailed)
    ELSE LET amount_contributed == MapGetOrZero(c.contributions, invoker) IN
         IF ~(amount_contributed > 0) THEN Panic(c, NoContribution)
         ELSE LET c1 == [c EXCEPT !.total_contributed = @ - amount_contributed]
              IN Outcome(c1, Ok, Transfer(c, invoker, amount_contributed),
                         Event("RefundIssued", invoker, amount_contributed))

refund(c, ts, invoker) ==
    IF ~(c.status = Failed) THEN Panic(c, NotFailed)
    ELSE LET amount_contributed == MapGetOrZero(c.contributions, invoker) IN
         IF ~(amount_contributed > 0) THEN Panic(c, NoContribution)
         ELSE LET c1 == [c EXCEPT !.contributions = MapInsert(@, invoker, 0),
                                  !.total_contributed = @ - amount_contributed]
              IN Outcome(c1, Ok, Transfer(c, invoker, amount_contributed),
                         Event("RefundIssued", invoker, amount_contributed))

\* check_status with the goal comparison the wrong way round
check_status_flipped(c, ts) ==
    LET c1 == IF ts > c.deadline
              THEN IF c.total_contributed <= c.goal
                   THEN [c EXCEPT !.status = Successful]
                   ELSE [c EXCEPT !.status = Failed]
              ELSE c
    IN Outcome(c1, c1.status, NoTransfer, NoEvent)

check_status(c, ts) ==
    LET c1 == IF ts > c.deadline
              THEN IF c.total_contributed >= c.goal
                   THEN [c EXCEPT !.status = Successful]
                   ELSE [c EXCEPT !.status = Failed]
              ELSE c
    IN Outcome(c1, c1.status, NoTransfer, NoEvent)

\* finalize_campaign that reopens the campaign before the deadline
finalize_campaign_reopens(c, ts) ==
    LET c1 == IF ts > c.deadline
              THEN IF c.total_contributed >= c.goal
                   THEN [c EXCEPT !.status = Successful]
                   ELSE [c EXCEPT !.status = Failed]
              ELSE [c EXCEPT !.status = Active]
    IN Outcome(c1, Ok, NoTransfer, NoEvent)

\* finalize_campaign that closes the campaign by pulling the deadline in
finalize_campaign_closes(c, ts) ==
    LET c1 == IF ts > c.deadline
              THEN IF c.total_contributed >= c.goal
                   THEN [c EXCEPT !.status = Successful]
                   ELSE [c EXCEPT !.status = Failed]
              ELSE [c EXCEPT !.status = Expired, !.deadline = ts]
    IN Outcome(c1, Ok, NoTransfer, NoEvent)

\* finalize_campaign that only ever touches an Active campaign
finalize_campaign_active_only(c, ts) ==
    LET c1 == IF c.status # Active THEN c
              ELSE IF ts > c.deadline
              THEN IF c.total_contributed >= c.goal
                   THEN [c EXCEPT !.status = Successful]
                   ELSE [c EXCEPT !.status = Failed]
              ELSE [c EXCEPT !.status = Expired]
    IN Outcome(c1, Ok, NoTransfer, NoEvent)

finalize_campaign(c, ts) ==
    LET c1 == IF ts > c.deadline
              THEN IF c.total_contributed >= c.goal
                   THEN [c EXCEPT !.status = Successful]
                   ELSE [c EXCEPT !.status = Failed]
              ELSE [c EXCEPT !.status = Expired]
    IN Outcome(c1, Ok, NoTransfer, NoEvent)

\* ---------------------------------------------------------------- state
VARIABLES
    campaign,       \* the Campaign value the handlers mutate
    now,            \* env.timestamp()
    last,           \* the latest call: op, invoker, amount, result, transfer, event
    balance,        \* env.balance_of: amount the host moved to each address
    paidIn,         \* amount accepted from each address by contribute
    withdrawCount,  \* number of withdraw calls that returned
    refundCount,    \* per address, number of refund calls that returned
    otherCalled,    \* some call other than contribute has been made
    resolved        \* status the first check_status after the deadline returned

vars == <<campaign, now, last, balance, paidIn, withdrawCount, refundCount, otherCalled,
          resolved>>

\* no check_status call has been made after the deadline yet
Unresolved == "unresolved"

Call(op, invoker, amount, out) ==
    [op |-> op, invoker |-> invoker, amount |-> amount,
     result |-> out.result, transfer |-> out.transfer, event |-> out.event]

\* the host credits the recipient of the transfer a call requested
Credit(b, t) == IF t = NoTransfer THEN b ELSE [b EXCEPT ![t.to] = @ + t.amount]

accepted == SumOver(paidIn, Address)
transferredOut == SumOver(balance, Address)

Init ==
    /\ \E invoker \in Address, goal \in Goals, deadline \in Deadlines, token \in Tokens :
          campaign = create_campaign(invoker, goal, deadline, token)
    /\ now = 0
    /\ last = [op |-> "create", invoker |-> campaign.creator, amount |-> 0,
               result |-> Ok, transfer |-> NoTransfer, event |-> NoEvent]
    /\ balance = [a \in Address |-> 0]
    /\ paidIn = [a \in Address |-> 0]
    /\ withdrawCount = 0
    /\ refundCount = [a \in Address |-> 0]
    /\ otherCalled = FALSE
    /\ resolved = Unresolved

Contribute(invoker, amount) ==
    LET out == contribute(campaign, now, invoker, amount) IN
    /\ out.result = Ok => accepted + amount <= MaxAccepted
    /\ campaign' = out.campaign
    \* the amount is first looked at once the deadline assert has passed
    \* (main.rs:60), env.invoker() once both asserts have (main.rs:62)
    /\ last' = Call("contribute", IF out.result = Ok THEN invoker ELSE 0,
                    IF now < campaign.deadline THEN amount ELSE 0, out)
    /\ paidIn' = IF out.result = Ok THEN [paidIn EXCEPT ![invoker] = @ + amount] ELSE paidIn
    /\ UNCHANGED <<now, balance, withdrawCount, refundCount, otherCalled, resolved>>

Withdraw(invoker) ==
    LET out == withdraw(campaign, now, invoker) IN
    /\ withdrawCount < MaxWithdraws
    /\ campaign' = out.campaign
    /\ last' = Call("withdraw", invoker, 0, out)
    /\ balance' = Credit(balance, out.transfer)
    /\ withdrawCount' = IF out.result = Ok THEN withdrawCount + 1 ELSE withdrawCount
    /\ otherCalled' = TRUE
    /\ UNCHANGED <<now, paidIn, refundCount, resolved>>

Refund(invoker) ==
    LET out == refund(campaign, now, invoker) IN
    /\ campaign' = out.campaign
    /\ last' = Call("refund", invoker, 0, out)
    /\ balance' = Credit(balance, out.transfer)
    /\ refundCount' = IF out.result = Ok THEN [refundCount EXCEPT ![invoker] = @ + 1]
                      ELSE refundCount
    /\ otherCalled' = TRUE
    /\ UNCHANGED <<now, paidIn, withdrawCount, resolved>>

\* check_status and finalize_campaign never read env.invoker()
CheckStatus ==
    LET out == check_status(campaign, now) IN
    /\ campaign' = out.campaign
    /\ last' = Call("check_status", 0, 0, out)
    /\ otherCalled' = TRUE
    /\ resolved' = IF resolved = Unresolved /\ now > campaign.deadline
                   THEN out.result ELSE resolved
    /\ UNCHANGED <<now, balance, paidIn, withdrawCount, refundCount>>

Finalize ==
    LET out == finalize_campaign(campaign, now) IN
    /\ campaign' = out.campaign
    /\ last' = Call("finalize", 0, 0, out)
    /\ otherCalled' = TRUE
    /\ UNCHANGED <<now, balance, paidIn, withdrawCount, refundCount, resolved>>

\* the host clock is monotonic non-decreasing
Tick ==
    /\ now < MaxTime
    /\ now' = now + 1
    /\ UNCHANGED <<campaign, last, balance, paidIn, withdrawCount, refundCount, otherCalled,
                   resolved>>

Next ==
    \/ \E invoker \in Address, amount \in Amounts : Contribute(invoker, amount)
    \/ \E invoker \in Address : Withdraw(invoker)
    \/ \E invoker \in Address : Refund(invoker)
    \/ CheckStatus
    \/ Finalize
    \/ Tick

Spec == Init /\ [][Next]_vars

\* ------------------------------------------------------------ properties
\* a step that is a call of the named handler (Tick keeps last, moves now)
IsCall(op) == last'.op = op /\ now' = now

Ledger(a) == MapGetOrZero(campaign.contributions, a)

\* C1: the sum of the amounts transferred out of custody (withdraw to the
\* creator plus refund to contributors) never exceeds the sum of the amounts
\* accepted by contribute.
NoDoubleSpend == transferredOut <= accepted

\* C2: after every operation total_contributed equals the sum of the
\* entries of the contributions ledger.
TotalIsLedgerSum == campaign.total_contributed = LedgerSum(campaign.contributions)

\* the spec's error kind for a repeated withdrawal; no assert! raises it
NothingToWithdraw == "NothingToWithdraw"

\* C3: at most one withdraw succeeds: the first withdraw by the creator on a
\* Successful campaign moves the prior total_contributed to the creator and
\* zeroes it; every later one fails with NothingToWithdraw and moves nothing.
SingleWithdraw ==
    [][(IsCall("withdraw") /\ last'.invoker = campaign.creator
                           /\ campaign.status = Successful) =>
         IF withdrawCount = 0
         THEN /\ last'.result = Ok
              /\ balance' = [balance EXCEPT ![campaign.creator] = @ + campaign.total_contributed]
              /\ campaign'.total_contributed = 0
         ELSE /\ last'.result = NothingToWithdraw
              /\ balance' = balance]_vars

\* C4: on a Failed campaign a contributor's first refund moves exactly the
\* sum that contributor paid in, zeroes the ledger entry and lowers
\* total_contributed by that sum; a further refund by the same identity, or
\* a refund by one who never contributed, fails with NoContribution and
\* changes nothing.
RefundExactlyOnce ==
    [][(IsCall("refund") /\ campaign.status = Failed) =>
         LET who == last'.invoker IN
         IF refundCount[who] = 0 /\ paidIn[who] > 0
         THEN /\ last'.result = Ok
              /\ last'.transfer.to = who
              /\ last'.transfer.amount = paidIn[who]
              /\ balance' = [balance EXCEPT ![who] = @ + paidIn[who]]
              /\ campaign'.contributions[who] = 0
              /\ campaign'.total_contributed = campaign.total_contributed - paidIn[who]
              /\ refundCount'[who] = 1
         ELSE /\ last'.result = NoContribution
              /\ campaign' = campaign
              /\ balance' = balance
              /\ refundCount' = refundCount]_vars

\* a second refund by a refunded contributor was rejected
RefundedTwiceRejected ==
    /\ last.op = "refund"
    /\ last.result = NoContribution
    /\ refundCount[last.invoker] = 1
    /\ balance[last.invoker] = paidIn[last.invoker]
    /\ paidIn[last.invoker] > 0

\* C5: no sequence of operations contains both a successful withdraw and a
\* successful refund.
WithdrawXorRefund == ~(withdrawCount > 0 /\ \E a \in Address : refundCount[a] > 0)

\* C6: once status is Successful, Failed or Expired no operation changes it.
TerminalStatuses ==
    [][campaign.status \in {Successful, Failed, Expired} =>
         campaign'.status = campaign.status]_vars

\* C7: once status has left Active no operation sets it back to Active.
NeverBackToActive == [][campaign.status # Active => campaign'.status # Active]_vars

\* a successful contribute on a campaign that finalize had marked Expired
ContributedWhileExpired ==
    /\ campaign.status = Expired
    /\ last.op = "contribute"
    /\ last.result = Ok

\* C8: every transition of status into Successful ends in a state where
\* total_contributed >= goal.
SuccessfulOnlyAtGoal ==
    [][(campaign.status # Successful /\ campaign'.status = Successful) =>
         campaign'.total_contributed >= campaign'.goal]_vars

\* the latest contribute is the one that brought the sum up to the goal
GoalReachedByContribute ==
    /\ last.op = "contribute"
    /\ last.result = Ok
    /\ campaign.status = Successful
    /\ campaign.goal > 0
    /\ campaign.total_contributed = campaign.goal
    /\ accepted = campaign.goal

\* C9: on a fresh campaign with goal > 0, after any sequence of contribute
\* calls total_contributed is the sum of the accepted amounts, each ledger
\* entry the sum of that contributor's amounts, and status is Successful
\* exactly when the running sum has reached goal, Active before.
ContributeAccumulates ==
    (~otherCalled /\ campaign.goal > 0) =>
        /\ campaign.total_contributed = accepted
        /\ \A a \in Address : Ledger(a) = paidIn[a]
        /\ campaign.status = IF accepted >= campaign.goal THEN Successful ELSE Active

\* every identity has contributed and the sum has gone past the goal
ContributedPastGoal ==
    /\ ~otherCalled
    /\ campaign.goal > 0
    /\ \A a \in Address : paidIn[a] > 0
    /\ accepted > campaign.goal
    /\ campaign.status = Successful

\* C10: a contribute call made after the deadline has passed fails with
\* CampaignEnded, leaves the campaign unchanged and emits no event, whatever
\* the amount and the status.
LateContributeRejected ==
    [][(IsCall("contribute") /\ now > campaign.deadline) =>
         /\ last'.result = CampaignEnded
         /\ last'.event = NoEvent
         /\ campaign' = campaign
         /\ paidIn' = paidIn]_vars

\* a positive contribution to a still Active campaign was rejected as late
LateContributeSeen ==
    /\ last.op = "contribute"
    /\ last.result = CampaignEnded
    /\ now > campaign.deadline
    /\ campaign.status = Active

\* C11: a contribute call with amount <= 0 made before the deadline fails
\* with InvalidAmount, leaves the campaign unchanged and emits no event.
NonPositiveContributeRejected ==
    [][(IsCall("contribute") /\ last'.amount <= 0 /\ now < campaign.deadline) =>
         /\ last'.result = InvalidAmount
         /\ last'.event = NoEvent
         /\ campaign' = campaign
         /\ paidIn' = paidIn]_vars

\* a non-positive contribution to an open campaign that already holds funds
\* was rejected
NonPositiveContributeSeen ==
    /\ last.op = "contribute"
    /\ last.result = InvalidAmount
    /\ last.amount < 0
    /\ now < campaign.deadline
    /\ campaign.total_contributed > 0

CampaignSucceeded == NotFailed
CampaignStillActive == "CampaignStillActive"

\* C13: refund on a campaign that is not Failed fails without transfer or
\* change of state, with CampaignStillActive when status is Active and
\* CampaignSucceeded when status is Successful.
RefundKindsDistinguished ==
    [][(IsCall("refund") /\ campaign.status # Failed) =>
         /\ last'.transfer = NoTransfer
         /\ campaign' = campaign
         /\ balance' = balance
         /\ campaign.status = Active => last'.result = CampaignStillActive
         /\ campaign.status = Successful => last'.result = CampaignSucceeded]_vars

\* C14: once a check_status call made after the deadline has returned a
\* status, every later check_status call returns that same status and leaves
\* the campaign as it was, whatever calls come in between.
CheckStatusStable ==
    [][(IsCall("check_status") /\ resolved # Unresolved) =>
         /\ last'.result = resolved
         /\ campaign' = campaign]_vars

\* C15: in every reachable state total_contributed >= 0 and every ledger
\* entry is >= 0.
NonNegative ==
    /\ campaign.total_contributed >= 0
    /\ \A a \in DOMAIN campaign.contributions : campaign.contributions[a] >= 0

\* C16: no operation changes the campaign's creator, goal or deadline: they
\* stay the invoker and the arguments of create_campaign.
CreateFieldsImmutable ==
    [][/\ campaign'.creator = campaign.creator
       /\ campaign'.goal = campaign.goal
       /\ campaign'.deadline = campaign.deadline]_vars

\* a funded campaign that was finalized before its deadline, which is still
\* ahead
FinalizedBeforeDeadline ==
    /\ last.op = "finalize"
    /\ campaign.status = Expired
    /\ now < campaign.deadline
    /\ campaign.total_contributed > 0

\* C17: whenever the host time is >= deadline (time = deadline included) and
\* status is Active, check_status and finalize_campaign each set status to
\* Successful if total_contributed >= goal and to Failed otherwise.
ResolvesAtDeadline ==
    [][((IsCall("check_status") \/ IsCall("finalize"))
        /\ now >= campaign.deadline /\ campaign.status = Active) =>
           campaign'.status = IF campaign.total_contributed >= campaign.goal
                              THEN Successful ELSE Failed]_vars

\* C18: a contribute call on a campaign whose status is Successful, Failed
\* or Expired never changes the ledger or total_contributed.
ContributeOnlyWhileActive ==
    [][(IsCall("contribute") /\ campaign.status \in {Successful, Failed, Expired}) =>
         /\ campaign'.contributions = campaign.contributions
         /\ campaign'.total_contributed = campaign.total_contributed]_vars

\* C18 as amended: contribute is closed by the clock alone: a call at or
\* after the deadline, and so any call on a Failed campaign, changes neither
\* the ledger nor total_contributed; before the deadline a positive amount
\* is accepted whatever the status.
ContributeClosedByClock ==
    [][IsCall("contribute") =>
         IF now >= campaign.deadline \/ campaign.status = Failed
         THEN /\ campaign'.contributions = campaign.contributions
              /\ campaign'.total_contributed = campaign.total_contributed
              /\ last'.result = CampaignEnded
         ELSE last'.amount > 0 =>
              /\ last'.result = Ok
              /\ campaign'.total_contributed =
                     campaign.total_contributed + last'.amount]_vars

\* a contribution to a Failed campaign was turned away
ContributeOnFailedRejected ==
    /\ last.op = "contribute"
    /\ last.result = CampaignEnded
    /\ campaign.status = Failed
    /\ campaign.total_contributed > 0

\* C19: finalize_campaign called before the deadline sets status to Expired
\* and changes nothing else, and the only status it moves to Expired is
\* Active.
EarlyFinalizeExpiresActive ==
    [][(IsCall("finalize") /\ now < campaign.deadline) =>
         /\ campaign' = [campaign EXCEPT !.status = Expired]
         /\ campaign.status \in {Active, Expired}]_vars

\* C20: when finalize_campaign runs after the deadline on a campaign that
\* holds a positive ledger entry and has seen no withdraw, the status it
\* leaves is Successful or Failed and stays so, and then the creator's
\* withdraw, or the refund of every contributor with a positive entry, goes
\* through.
FundsStayClaimable ==
    [][/\ (IsCall("finalize") /\ now > campaign.deadline /\ withdrawCount = 0
           /\ \E a \in Address : Ledger(a) > 0) =>
             /\ campaign'.status \in {Successful, Failed}
             /\ campaign'.status = Successful =>
                  withdraw(campaign', now', campaign'.creator).result = Ok
             /\ campaign'.status = Failed =>
                  \A a \in Address :
                      MapGetOrZero(campaign'.contributions, a) > 0 =>
                          refund(campaign', now', a).result = Ok
       /\ (now > campaign.deadline /\ campaign.status \in {Successful, Failed}) =>
             campaign'.status \in {Successful, Failed}]_vars

\* a campaign expired early with funds in it was resolved to Failed by
\* finalize_campaign once the deadline had passed
ExpiredFundsResolved ==
    /\ last.op = "finalize"
    /\ now > campaign.deadline
    /\ campaign.status = Failed
    /\ withdrawCount = 0
    /\ \E a \in Address : Ledger(a) > 0

====
